---------------------------- MODULE Spec2Model ----------------------------
(* A model of rarc-rs: the header/node/entry codecs (src/src/parser.rs),   *)
(* the incremental reader (src/src/parse_read.rs), Header::write and       *)
(* Rarc::new with its tree builder node_to_dir (src/src/lib.rs).           *)
(* Bytes are the integers 0..255, a byte slice is a sequence of bytes.     *)
EXTENDS Integers, Sequences, FiniteSets, TLC

VARIABLES
    checked,       \* build profile: TRUE = overflow checks on (debug), FALSE = wrapping (release)
    src,           \* the bytes of the underlying source (the R of Rarc<R>)
    fails_at,      \* the position from which the source's read() fails, -1: it never does
    pos,           \* the source's read position
    chunk,         \* the most bytes one underlying read() call of the source delivers
    stage,         \* where Rarc::new (or the codec harness) stands
    rd_pc,         \* where parse_read::read stands: "idle", "parse" or "fill"
    input,         \* parse_read::read's buffer `input`
    want,          \* the limit left on the Take adaptor of the pending read_to_end
    start,         \* the source position at which the running parse_read::read began
    header,        \* the decoded Header (NoHeader before)
    string_table,  \* Rarc::new's string_table
    nodes,         \* Rarc::new's nodes
    entries,       \* Rarc::new's entries
    fs,            \* the tree built by node_to_dir (NoFs before)
    result,        \* how the operation ended: "running", "Ok", an Error kind, "Panic", "StackOverflow"
    failed_at,     \* the stage in which the operation ended without success ("" otherwise)
    hdr_given,     \* codec round trip: the value it starts from (a block, or a Header)
    hdr_mid,       \* codec round trip: the outcome of the first conversion
    hdr_back       \* codec round trip: the outcome of the conversion back

vars == <<checked, src, fails_at, pos, chunk, stage, rd_pc, input, want, start, header,
          string_table, nodes, entries, fs, result, failed_at,
          hdr_given, hdr_mid, hdr_back>>

-----------------------------------------------------------------------------
(* Integers and bytes *)

\* A u16 is an integer 0..65535. A u32 is the pair <<high half, low half>> of
\* its 16-bit halves, so that the full 32-bit range and its overflow are kept.
W16 == 256 * 256

u32(n) == << n \div W16, n % W16 >>

\* `as usize` / `as u64` of a u32 (lossless in the code; the model applies it
\* only to values below 2^31)
as_usize(v) == v[1] * W16 + v[2]

Min(a, b) == IF a < b THEN a ELSE b

\* x + k on u32 overflows
add_overflows(x, k) == x[1] + ((x[2] + k) \div W16) >= W16

\* x + k wrapped to 32 bits
wrapping_add(x, k) == << (x[1] + ((x[2] + k) \div W16)) % W16, (x[2] + k) % W16 >>

\* x - k on u32 underflows (k < 65536)
sub_overflows(x, k) == x[1] = 0 /\ x[2] < k

\* x - k wrapped to 32 bits (k < 65536)
wrapping_sub(x, k) ==
    IF x[2] >= k THEN << x[1], x[2] - k >>
    ELSE << (x[1] + W16 - 1) % W16, x[2] + W16 - k >>

\* write_u16::<BE>
be16(n) == << (n \div 256) % 256, n % 256 >>

\* write_u32::<BE>
be32(v) == be16(v[1]) \o be16(v[2])

\* the first n bytes of s, and what follows them
Prefix(s, n) == SubSeq(s, 1, n)

Drop(s, n) == SubSeq(s, n + 1, Len(s))

\* be_u16 / be_u32 on exactly 2 / 4 bytes
be_value(bs) ==
    IF Len(bs) = 2 THEN bs[1] * 256 + bs[2]
    ELSE << bs[1] * 256 + bs[2], bs[3] * 256 + bs[4] >>

\* "RARC"
MAGIC == << \h52, \h41, \h52, \h43 >>

\* the header-length word, always 0x20
HDRLEN == << 0, 0, 0, \h20 >>

\* "ROOT"
ROOT == << \h52, \h4F, \h4F, \h54 >>

-----------------------------------------------------------------------------
(* nom's IResult, and the primitive parsers the codecs are made of *)

Done(v) == [t |-> "Done", v |-> v]

Error(kind) == [t |-> "Error", v |-> kind]

Incomplete(size) == [t |-> "Incomplete", v |-> size]

Panic == [t |-> "Panic", v |-> "panic"]

\* one step of a do_parse! chain
Fld(k, n, nm, bytes) == [k |-> k, n |-> n, nm |-> nm, bytes |-> bytes]

\* tag!: the bytes present must match; too few of them is Incomplete
tag(bytes, i) ==
    LET m == Min(Len(i), Len(bytes)) IN
    IF Prefix(i, m) /= Prefix(bytes, m) THEN Error("Tag")
    ELSE IF m < Len(bytes) THEN Incomplete(Len(bytes))
    ELSE Done(bytes)

\* be_u16 / be_u32
be_uint(n, i) ==
    IF Len(i) < n THEN Incomplete(n) ELSE Done(be_value(Prefix(i, n)))

\* take!(n)
take(n, i) ==
    IF Len(i) < n THEN Incomplete(n) ELSE Done(Prefix(i, n))

\* std::str::from_utf8 succeeds (exact for bytes below 0x80 and the byte 0xFF)
IsUtf8(bs) == \A k \in 1..Len(bs) : bs[k] < 128

\* take_str!(n): take!(n) mapped through from_utf8
take_str(n, i) ==
    IF Len(i) < n THEN Incomplete(n)
    ELSE IF IsUtf8(Prefix(i, n)) THEN Done(Prefix(i, n))
    ELSE Error("MapRes")

apply(f, i) ==
    CASE f.k = "tag" -> tag(f.bytes, i)
      [] f.k = "uint" -> be_uint(f.n, i)
      [] f.k = "take" -> take(f.n, i)
      [] f.k = "take_str" -> take_str(f.n, i)

\* do_parse!: run the steps in order; an Incomplete reports the bytes
\* consumed so far plus what the failing step asked for
RECURSIVE do_parse(_, _, _, _)
do_parse(fields, i, consumed, acc) ==
    IF fields = <<>> THEN Done(acc)
    ELSE LET f == Head(fields)
             r == apply(f, i)
         IN  CASE r.t = "Error" -> r
               [] r.t = "Incomplete" -> Incomplete(consumed + r.v)
               [] OTHER -> do_parse(Tail(fields), Drop(i, f.n), consumed + f.n,
                                    (f.nm :> r.v) @@ acc)

-----------------------------------------------------------------------------
(* The structural codecs: src/src/parser.rs and Header::write *)

NoName == [some |-> FALSE, s |-> <<>>]

Some(s) == [some |-> TRUE, s |-> s]

HeaderFields ==
    << Fld("tag", 4, "", MAGIC),
       Fld("uint", 4, "file_size", <<>>),
       Fld("tag", 4, "", HDRLEN),
       Fld("uint", 4, "data_offset", <<>>),
       Fld("uint", 4, "data_length", <<>>),
       Fld("take", 4, "", <<>>),
       Fld("take", 8, "", <<>>),
       Fld("uint", 4, "n_nodes", <<>>),
       Fld("uint", 4, "nodes_offset", <<>>),
       Fld("uint", 4, "n_entries", <<>>),
       Fld("uint", 4, "entries_offset", <<>>),
       Fld("uint", 4, "strings_size", <<>>),
       Fld("uint", 4, "strings_offset", <<>>),
       Fld("uint", 2, "n_files", <<>>),
       Fld("take", 2, "", <<>>),
       Fld("take", 4, "", <<>>) >>

\* `x + 0x20` on a u32: a panic with overflow checks on, wrapped without
HeaderOffsetOverflows(a) ==
    \/ add_overflows(a.data_offset, \h20)
    \/ add_overflows(a.nodes_offset, \h20)
    \/ add_overflows(a.entries_offset, \h20)
    \/ add_overflows(a.strings_offset, \h20)

HeaderOf(a) ==
    [ file_size      |-> a.file_size,
      data_offset    |-> wrapping_add(a.data_offset, \h20),
      data_length    |-> a.data_length,
      n_nodes        |-> a.n_nodes,
      nodes_offset   |-> wrapping_add(a.nodes_offset, \h20),
      n_entries      |-> a.n_entries,
      entries_offset |-> wrapping_add(a.entries_offset, \h20),
      strings_size   |-> a.strings_size,
      strings_offset |-> wrapping_add(a.strings_offset, \h20),
      n_files        |-> a.n_files ]

parse_header(i) ==
    LET r == do_parse(HeaderFields, i, 0, <<>>) IN
    IF r.t /= "Done" THEN r
    ELSE IF checked /\ HeaderOffsetOverflows(r.v) THEN Panic
    ELSE Done(HeaderOf(r.v))

NodeFields ==
    << Fld("take_str", 4, "id", <<>>),
       Fld("uint", 4, "filename_offset", <<>>),
       Fld("uint", 2, "filename_hash", <<>>),
       Fld("uint", 2, "n_entries", <<>>),
       Fld("uint", 4, "entry_start_id", <<>>) >>

parse_node(i) ==
    LET r == do_parse(NodeFields, i, 0, <<>>) IN
    IF r.t /= "Done" THEN r
    ELSE Done([ id              |-> r.v.id,
                name            |-> NoName,
                filename_offset |-> r.v.filename_offset,
                filename_hash   |-> r.v.filename_hash,
                n_entries       |-> r.v.n_entries,
                entry_start_id  |-> r.v.entry_start_id ])

EntryFields ==
    << Fld("uint", 2, "idx", <<>>),
       Fld("uint", 2, "hash", <<>>),
       Fld("uint", 2, "entry_type", <<>>),
       Fld("uint", 2, "name_offset", <<>>),
       Fld("uint", 4, "data_offset_or_node_index", <<>>),
       Fld("uint", 4, "file_data_length", <<>>),
       Fld("take", 4, "", <<>>) >>

\* the match on entry_type: Folder, File, or panic!("unsupported entry type!")
EntryOf(a) ==
    CASE a.entry_type = \h200 ->
            Done([ kind            |-> "Folder",
                   name_offset     |-> a.name_offset,
                   hash            |-> a.hash,
                   name            |-> NoName,
                   folder_node_idx |-> a.data_offset_or_node_index ])
      [] a.entry_type = \h1100 ->
            Done([ kind        |-> "File",
                   idx         |-> a.idx,
                   name_offset |-> a.name_offset,
                   hash        |-> a.hash,
                   name        |-> NoName,
                   data_offset |-> a.data_offset_or_node_index,
                   data_length |-> a.file_data_length ])
      [] OTHER -> Panic

parse_entry(i) ==
    LET r == do_parse(EntryFields, i, 0, <<>>) IN
    IF r.t /= "Done" THEN r ELSE EntryOf(r.v)

\* `x - 0x20` on a u32: a panic with overflow checks on, wrapped without
HeaderWriteOverflows(h) ==
    \/ sub_overflows(h.data_offset, \h20)
    \/ sub_overflows(h.nodes_offset, \h20)
    \/ sub_overflows(h.entries_offset, \h20)
    \/ sub_overflows(h.strings_offset, \h20)

HeaderBytes(h) ==
    MAGIC \o be32(h.file_size) \o be32(u32(\h20))
      \o be32(wrapping_sub(h.data_offset, \h20))
      \o be32(h.data_length) \o be32(h.data_length)
      \o be32(u32(0)) \o be32(u32(0))
      \o be32(h.n_nodes) \o be32(wrapping_sub(h.nodes_offset, \h20))
      \o be32(h.n_entries) \o be32(wrapping_sub(h.entries_offset, \h20))
      \o be32(h.strings_size) \o be32(wrapping_sub(h.strings_offset, \h20))
      \o be16(h.n_files) \o be16(0) \o be32(u32(0))

\* Header::write into a Vec<u8> (which never fails): Done(the bytes), or a panic
Header_write(h) ==
    IF checked /\ HeaderWriteOverflows(h) THEN Panic ELSE Done(HeaderBytes(h))

-----------------------------------------------------------------------------
(* The header codec as a round trip: parse_header then Header::write on a  *)
(* 0x40-byte block, Header::write then parse_header on a Header.           *)

NoHeader == [none |-> TRUE]

NoFs == [none |-> TRUE]

\* wire values an offset field is tried with: small, ordinary, and the top of the range
OffsetWires ==
    { u32(0), << \h5555, \h5535 >>, << \hFFFF, \hFFDF >>, << \hFFFF, \hFFE0 >>,
      << \hFFFF, \hFFFF >> }

EdgeWires == { << \h3333, \h3313 >>, << \hFFFF, \hFFFF >> }

Zero8 == << 0, 0, 0, 0, 0, 0, 0, 0 >>

Zero6 == << 0, 0, 0, 0, 0, 0 >>

\* the 0x40-byte blocks the codec is tried on
HeaderBlocks ==
    { mg \o be32(<< \h1337, \h1337 >>) \o hl \o be32(d_off) \o be32(u32(\h6776))
         \o dup \o res \o be32(u32(\h70)) \o be32(n_off) \o be32(u32(\hFF))
         \o be32(<< \h5335, \h3356 >>) \o be32(u32(\hFFFF)) \o be32(s_off)
         \o be16(\h1532) \o tail :
      mg \in { MAGIC, << \h52, \h41, \h52, \h44 >> },
      hl \in { HDRLEN, << 0, 0, 0, \h40 >> },
      d_off \in OffsetWires,
      dup \in { be32(u32(\h6776)), be32(u32(0)) },
      res \in { Zero8, << 0, 0, 0, 0, 0, 0, 0, 1 >> },
      n_off \in EdgeWires,
      s_off \in EdgeWires,
      tail \in { Zero6, << 0, 1, 0, 0, 0, 0 >> } }

\* the Headers the codec is tried on
HeaderValues ==
    { [ file_size      |-> << \h1337, \h1337 >>,
        data_offset    |-> d_off,
        data_length    |-> dlen,
        n_nodes        |-> nn,
        nodes_offset   |-> n_off,
        n_entries      |-> u32(\hFF),
        entries_offset |-> e_off,
        strings_size   |-> u32(\hFFFF),
        strings_offset |-> s_off,
        n_files        |-> nf ] :
      d_off \in { u32(0), u32(\h1F), u32(\h20), << \h5555, \h5555 >>, << \hFFFF, \hFFFF >> },
      dlen \in { u32(0), u32(\h6776) },
      nn \in { u32(0), u32(\h70) },
      n_off \in { u32(\h1F), u32(\h40) },
      e_off \in { u32(\h20), << \h5335, \h3376 >> },
      s_off \in { u32(0), << \h3254, \h7382 >> },
      nf \in { 0, \hFFFF } }

\* the variables of Rarc::new, at rest while the codec alone runs
RarcAtRest ==
    /\ src = <<>> /\ fails_at = -1 /\ pos = 0 /\ chunk = 1 /\ rd_pc = "idle" /\ input = <<>>
    /\ want = 0 /\ start = 0 /\ header = NoHeader /\ string_table = <<>>
    /\ nodes = <<>> /\ entries = <<>> /\ fs = NoFs /\ result = "running"
    /\ failed_at = ""

RarcUnchanged ==
    UNCHANGED << src, fails_at, pos, chunk, rd_pc, input, want, start, header,
                 string_table, nodes, entries, fs, result, failed_at >>

HeaderInit ==
    /\ checked \in BOOLEAN
    /\ \/ stage = "block" /\ hdr_given \in HeaderBlocks
       \/ stage = "value" /\ hdr_given \in HeaderValues
    /\ hdr_mid = Incomplete(0)
    /\ hdr_back = Incomplete(0)
    /\ RarcAtRest

\* parse_header on the block
ParseGiven ==
    /\ stage = "block"
    /\ hdr_mid' = parse_header(hdr_given)
    /\ stage' = "decoded"
    /\ UNCHANGED << checked, hdr_given, hdr_back >>
    /\ RarcUnchanged

\* Header::write on the Header just decoded
WriteBack ==
    /\ stage = "decoded"
    /\ hdr_mid.t = "Done"
    /\ hdr_back' = Header_write(hdr_mid.v)
    /\ stage' = "reencoded"
    /\ UNCHANGED << checked, hdr_given, hdr_mid >>
    /\ RarcUnchanged

\* Header::write on the Header
WriteGiven ==
    /\ stage = "value"
    /\ hdr_mid' = Header_write(hdr_given)
    /\ stage' = "encoded"
    /\ UNCHANGED << checked, hdr_given, hdr_back >>
    /\ RarcUnchanged

\* parse_header on the bytes just written
ParseBack ==
    /\ stage = "encoded"
    /\ hdr_mid.t = "Done"
    /\ hdr_back' = parse_header(hdr_mid.v)
    /\ stage' = "redecoded"
    /\ UNCHANGED << checked, hdr_given, hdr_mid >>
    /\ RarcUnchanged

HeaderNext == ParseGiven \/ WriteBack \/ WriteGiven \/ ParseBack

HeaderSpec == HeaderInit /\ [][HeaderNext]_vars

\* a Header whose offsets lie past the 0x20-byte header block they are relative to
ValidHeader(h) == ~HeaderWriteOverflows(h)

\* the u32 stored big-endian at byte offset off of block b
WireU32(b, off) == << b[off + 1] * 256 + b[off + 2], b[off + 3] * 256 + b[off + 4] >>

\* C1: header round trip. For every valid Header h, parse_header of the bytes
\* Header::write(h) produced yields h; for every 0x40-byte block b that
\* parse_header accepts, Header::write of the decoded Header produces exactly b.
C1_HeaderRoundTrip ==
    /\ (stage = "encoded" /\ ValidHeader(hdr_given)) => hdr_mid.t = "Done"
    /\ (stage = "redecoded" /\ ValidHeader(hdr_given)) =>
           (hdr_back.t = "Done" /\ hdr_back.v = hdr_given)
    /\ stage = "reencoded" => (hdr_back.t = "Done" /\ hdr_back.v = hdr_given)

\* the first half of C1 alone: write then parse gives the Header back
C1_WriteThenParse ==
    /\ (stage = "encoded" /\ ValidHeader(hdr_given)) => hdr_mid.t = "Done"
    /\ (stage = "redecoded" /\ ValidHeader(hdr_given)) =>
           (hdr_back.t = "Done" /\ hdr_back.v = hdr_given)

\* the second half of C1 on the blocks whose duplicate data_length and
\* reserved words are what Header::write emits
C1_ParseThenWriteCanonical ==
    (/\ stage = "reencoded"
     /\ WireU32(hdr_given, \h14) = WireU32(hdr_given, \h10)
     /\ SubSeq(hdr_given, \h19, \h20) = Zero8
     /\ SubSeq(hdr_given, \h3B, \h40) = Zero6)
    => (hdr_back.t = "Done" /\ hdr_back.v = hdr_given)

\* C10: for every block parse_header accepts, each decoded offset is its
\* wire field plus exactly 0x20 (as numbers, with no wrap-around) and every
\* other field is its wire value.
C10_OffsetsPlus0x20 ==
    (stage = "decoded" /\ hdr_mid.t = "Done") =>
        LET b == hdr_given
            h == hdr_mid.v
            plus20(w, d) == ~add_overflows(w, \h20) /\ d = wrapping_add(w, \h20)
        IN  /\ plus20(WireU32(b, \h0C), h.data_offset)
            /\ plus20(WireU32(b, \h24), h.nodes_offset)
            /\ plus20(WireU32(b, \h2C), h.entries_offset)
            /\ plus20(WireU32(b, \h34), h.strings_offset)
            /\ h.file_size = WireU32(b, \h04)
            /\ h.data_length = WireU32(b, \h10)
            /\ h.n_nodes = WireU32(b, \h20)
            /\ h.n_entries = WireU32(b, \h28)
            /\ h.strings_size = WireU32(b, \h30)
            /\ h.n_files = b[\h39] * 256 + b[\h3A]

\* C10 on the wire values that leave room for the addition
C10_OffsetsPlus0x20InRange ==
    (/\ stage = "decoded" /\ hdr_mid.t = "Done"
     /\ \A off \in { \h0C, \h24, \h2C, \h34 } : ~add_overflows(WireU32(hdr_given, off), \h20))
    => C10_OffsetsPlus0x20

-----------------------------------------------------------------------------
(* Name resolution: Node::read_name / Entry::read_name *)

\* BufRead::read_until(0x00): the bytes up to and including the first NUL,
\* or all of them when there is none
RECURSIVE read_until_nul(_)
read_until_nul(bs) ==
    IF bs = <<>> THEN <<>>
    ELSE IF Head(bs) = 0 THEN << 0 >>
    ELSE << Head(bs) >> \o read_until_nul(Tail(bs))

\* Vec::pop, its result dropped
pop(bs) == IF bs = <<>> THEN <<>> ELSE Prefix(bs, Len(bs) - 1)

\* WINDOWS_31J.decode(.., DecoderTrap::Strict) succeeds (exact for bytes below
\* 0x80, which decode to themselves, and for the byte 0xFF, which is invalid)
Decodes(bs) == \A k \in 1..Len(bs) : bs[k] < 128

\* the bytes read_name hands to the decoder: seek a Cursor over the table to
\* off, read_until(0x00), pop
name_bytes(table, off) == pop(read_until_nul(Drop(table, Min(off, Len(table)))))

\* Node::read_name: Done(the node, named) or Error("NameEncodingError")
node_read_name(node, table) ==
    LET bs == name_bytes(table, as_usize(node.filename_offset)) IN
    IF Decodes(bs) THEN Done([node EXCEPT !.name = Some(bs)])
    ELSE Error("NameEncodingError")

\* Entry::filename_offset
filename_offset(entry) == entry.name_offset

\* Entry::read_name
entry_read_name(entry, table) ==
    LET bs == name_bytes(table, filename_offset(entry)) IN
    IF Decodes(bs) THEN Done([entry EXCEPT !.name = Some(bs)])
    ELSE Error("NameEncodingError")

-----------------------------------------------------------------------------
(* The tree builder: vfs.rs and node_to_dir *)

\* vfs::File::new; `entry` records which Entry the tree node was built from
vfs_File(name, bounds, e) ==
    [kind |-> "File", name |-> name, data_bounds |-> bounds, entry |-> e]

\* vfs::Dir::new followed by the adds; `entry` and `node` record which Entry
\* and which Node the directory was built from (the root: entry -1)
vfs_Dir(name, members, e, n) ==
    [kind |-> "Dir", name |-> name, members |-> members, entry |-> e, node |-> n]

\* the new member put first
Dir_add_front(members, fsnode) == << fsnode >> \o members

\* Dir::add: push at the end of members
Dir_add(members, fsnode) == Append(members, fsnode)

\* Node::entry_range, as <<start, end>> of the half-open range
entry_range(node) ==
    << as_usize(node.entry_start_id), as_usize(node.entry_start_id) + node.n_entries >>

\* only "." left out
Materialized_only_self(entry) == filename_offset(entry) /= 0

\* the entries whose name offset marks them as "." / ".." are left out
Materialized(entry) == filename_offset(entry) /= 0 /\ filename_offset(entry) /= 2

BuildOk(members) == [t |-> "Ok", members |-> members]

BuildPanic == [t |-> "Panic", members |-> <<>>]

BuildOverflow == [t |-> "StackOverflow", members |-> <<>>]

\* node_to_dir(nodes, entries, &nodes[n], dir): the members it adds to dir, or
\* how it dies: a panic on an index out of bounds, or, when a folder leads back
\* to a node whose call is still running, recursion without end (the same
\* entries are walked again and lead to the same call), a stack overflow.
\* `active` is the set of nodes whose calls are running.
RECURSIVE node_to_dir(_, _, _, _), walk_entries(_, _, _, _, _, _)
node_to_dir(ns, es, n, active) ==
    LET range == entry_range(ns[n + 1]) IN
    IF range[2] > Len(es) THEN BuildPanic
    ELSE walk_entries(ns, es, range[1], range[2], active, <<>>)

\* the loop of node_to_dir from entry k on, `members` added so far
walk_entries(ns, es, k, end, active, members) ==
    IF k >= end THEN BuildOk(members)
    ELSE LET entry == es[k + 1] IN
         IF ~Materialized(entry)
         THEN walk_entries(ns, es, k + 1, end, active, members)
         ELSE IF entry.kind = "File"
         THEN walk_entries(ns, es, k + 1, end, active,
                  Dir_add(members,
                          vfs_File(entry.name.s,
                                   << as_usize(entry.data_offset),
                                      as_usize(entry.data_length) >>, k)))
         ELSE LET idx == as_usize(entry.folder_node_idx) IN
              IF idx >= Len(ns) THEN BuildPanic
              ELSE IF idx \in active THEN BuildOverflow
              ELSE LET sub == node_to_dir(ns, es, idx, active \cup {idx}) IN
                   IF sub.t /= "Ok" THEN sub
                   ELSE walk_entries(ns, es, k + 1, end, active,
                            Dir_add(members,
                                    vfs_Dir(entry.name.s, sub.members, k, idx)))

\* Fs::new(Dir::new(nodes[0].name)) and node_to_dir on nodes[0]
build_fs(ns, es) ==
    LET r == node_to_dir(ns, es, 0, {0}) IN
    IF r.t /= "Ok" THEN r
    ELSE [t |-> "Ok", members |-> r.members,
          root |-> vfs_Dir(ns[1].name.s, r.members, -1, 0)]

-----------------------------------------------------------------------------
(* The archives Rarc::new is run on *)

\* the most Node records, and the most Entry records, of an archive
MaxNodes == 2

MaxEntries == 2

\* the string table: "." at 0, ".." at 2, "a" at 5, and at 7 the bytes FF 62
\* with no terminator
StringTable == << \h2E, 0, \h2E, \h2E, 0, \h61, 0, \hFF, \h62 >>

\* Node::write: the 16-byte Node record
Node_write(id, fo, hash, n, first) ==
    id \o be32(u32(fo)) \o be16(hash) \o be16(n) \o be32(u32(first))

\* the 20-byte Entry record, in the layout parse_entry reads
EntryRecord(idx, hash, type, name_off, word, length) ==
    be16(idx) \o be16(hash) \o be16(type) \o be16(name_off)
      \o be32(u32(word)) \o be32(u32(length)) \o << 0, 0, 0, 0 >>

\* the Node records tried: <<id, filename_offset>>
NodeKinds ==
    { << ROOT, 5 >>,                             \* "ROOT", named "a"
      << << \h58, \h58, \h58, \h58 >>, 5 >>,      \* "XXXX", named "a"
      << ROOT, 7 >>,                             \* "ROOT", its name not decodable
      << << \h52, \h4F, \h4F, \hFF >>, 5 >> }     \* an id that is not UTF-8

\* the Entry records tried: <<type, name_offset, data_offset or node index, length>>
EntryKinds ==
    { << \h1100, 5, \h10, \h20 >>,   \* a file "a"
      << \h200, 5, 1, 0 >>,          \* a folder "a" at Node 1
      << \h200, 0, 0, 0 >>,          \* "." at Node 0
      << 0, 5, 0, 0 >>,              \* an unknown type tag
      << \h1100, 7, 0, 0 >> }        \* a file whose name is not decodable

SeqsUpTo(S, n) == UNION { [1..k -> S] : k \in 0..n }

RECURSIVE Flatten(_)
Flatten(ss) == IF ss = <<>> THEN <<>> ELSE Head(ss) \o Flatten(Tail(ss))

\* Node 0 spans the whole Entry table, every other Node its last record
NodeTable(nks, ne) ==
    Flatten([k \in 1..Len(nks) |->
        IF k = 1 THEN Node_write(nks[k][1], nks[k][2], 0, ne, 0)
        ELSE Node_write(nks[k][1], nks[k][2], 0, Min(ne, 1), IF ne = 0 THEN 0 ELSE ne - 1)])

EntryTable(eks) ==
    Flatten([k \in 1..Len(eks) |->
        EntryRecord(k - 1, 0, eks[k][1], eks[k][2], eks[k][3], eks[k][4])])

\* the archive: header block, Node table at 0x40, Entry table, string table
Archive(mg, nks, eks) ==
    LET nn == Len(nks)
        ne == Len(eks)
        e_off == \h40 + 16 * nn
        s_off == e_off + 20 * ne
        total == s_off + Len(StringTable)
    IN  mg \o be32(u32(total)) \o HDRLEN \o be32(u32(total - \h20)) \o be32(u32(0))
           \o be32(u32(0)) \o Zero8
           \o be32(u32(nn)) \o be32(u32(\h20))
           \o be32(u32(ne)) \o be32(u32(e_off - \h20))
           \o be32(u32(Len(StringTable))) \o be32(u32(s_off - \h20))
           \o be16(ne) \o Zero6
           \o NodeTable(nks, ne) \o EntryTable(eks) \o StringTable

\* the Node tables that pass the node stage: "ROOT" first, every name decodable
GoodNodeTables ==
    { nks \in SeqsUpTo({ << ROOT, 5 >>, << << \h58, \h58, \h58, \h58 >>, 5 >> }, MaxNodes) :
          nks /= <<>> /\ nks[1] = << ROOT, 5 >> }

AFile == << \h1100, 5, \h10, \h20 >>

\* one ROOT node with one file: 0x6D bytes
SmallArchive == Archive(MAGIC, << << ROOT, 5 >> >>, << AFile >>)

\* where a source is cut short or starts to fail: at once, inside the header,
\* inside the Node record, inside the Entry record, inside the string table
BreakPoints == { 0, \h3F, \h48, \h5A, \h69 }

Source(bytes, bad) == [bytes |-> bytes, fails_at |-> bad]

\* every Node table with one file, every Entry table under the Node tables
\* that let Rarc::new reach it, a bad magic, sources that end early and
\* sources that fail
Sources ==
    { Source(Archive(MAGIC, nks, << AFile >>), -1) : nks \in SeqsUpTo(NodeKinds, MaxNodes) }
    \cup { Source(Archive(MAGIC, nks, eks), -1) :
              nks \in GoodNodeTables, eks \in SeqsUpTo(EntryKinds, MaxEntries) }
    \cup { Source(Archive(<< \h52, \h41, \h52, \h44 >>, << << ROOT, 5 >> >>, <<>>), -1) }
    \cup { Source(Prefix(SmallArchive, n), -1) : n \in BreakPoints }
    \cup { Source(SmallArchive, n) : n \in BreakPoints }

-----------------------------------------------------------------------------
(* Rarc::new, with parse_read::read inside it *)

\* what one read() of the source delivers at most: a single byte, or more
\* than is ever asked for at once
Chunks == { 1, 64 }

\* the codec harness's variables, at rest while Rarc::new runs
CodecAtRest ==
    /\ hdr_given = <<>> /\ hdr_mid = Incomplete(0) /\ hdr_back = Incomplete(0)

CodecUnchanged == UNCHANGED << checked, hdr_given, hdr_mid, hdr_back >>

\* the source is a constant of a run
SourceUnchanged == UNCHANGED << src, fails_at, chunk >>

\* the bytes the source delivers before it ends or fails
GoodLen == IF fails_at < 0 THEN Len(src) ELSE Min(fails_at, Len(src))

\* No addition of Rarc::new overflows on these archives, so the build profile
\* does not matter to it.
Init ==
    /\ checked = FALSE
    /\ \E s \in Sources : src = s.bytes /\ fails_at = s.fails_at
    /\ chunk \in Chunks
    /\ pos = 0
    /\ stage = "header"
    /\ rd_pc = "ready"
    /\ input = <<>>
    /\ want = 0
    /\ start = 0
    /\ header = NoHeader
    /\ string_table = <<>>
    /\ nodes = <<>>
    /\ entries = <<>>
    /\ fs = NoFs
    /\ result = "running"
    /\ failed_at = ""
    /\ CodecAtRest

\* the parsing function parse_read::read was called with
Parser(st, i) ==
    CASE st = "header" -> parse_header(i)
      [] st = "nodes" -> parse_node(i)
      [] st = "entries" -> parse_entry(i)

Reading == stage \in { "header", "nodes", "entries" }

\* Rarc::new is over, with outcome r, having failed (unless r is "Ok") in stage st
Finish(r, st) ==
    /\ result' = r
    /\ failed_at' = IF r = "Ok" THEN "" ELSE st
    /\ stage' = "done"
    /\ rd_pc' = "idle"

\* parse_read::read is entered: an empty buffer, the parser called next
EnterRead(st, at) ==
    /\ stage' = st
    /\ rd_pc' = "ready"
    /\ input' = <<>>
    /\ want' = 0
    /\ start' = at
    /\ pos' = at

\* take(len), the bytes already buffered forgotten
take_limit_whole(len, buffered) == len

\* the limit of the Take adaptor: len - input.len()
take_limit(len, buffered) == len - buffered

\* the bytes read replace the buffer
extend_overwrites(buf, bytes) == bytes

\* read_to_end appends what it reads to the buffer
extend(buf, bytes) == buf \o bytes

\* parse_read::read, the parser says Incomplete: take(len - input.len())
\* is set up and read_to_end entered
ReadIncomplete ==
    /\ Reading /\ rd_pc = "ready"
    /\ LET r == Parser(stage, input) IN
         /\ r.t = "Incomplete"
         /\ want' = take_limit(r.v, Len(input))
    /\ rd_pc' = "fill"
    /\ UNCHANGED << pos, stage, input, start, header, string_table, nodes,
                    entries, fs, result, failed_at >>
    /\ CodecUnchanged /\ SourceUnchanged

\* parse_read::read, the parser says Error: Err(Error::Parse)
ReadError ==
    /\ Reading /\ rd_pc = "ready"
    /\ Parser(stage, input).t = "Error"
    /\ Finish("Parse", stage)
    /\ UNCHANGED << pos, input, want, start, header, string_table, nodes,
                    entries, fs >>
    /\ CodecUnchanged /\ SourceUnchanged

\* the parser panics: the process dies
ReadPanic ==
    /\ Reading /\ rd_pc = "ready"
    /\ Parser(stage, input).t = "Panic"
    /\ Finish("Panic", stage)
    /\ UNCHANGED << pos, input, want, start, header, string_table, nodes,
                    entries, fs >>
    /\ CodecUnchanged /\ SourceUnchanged

\* read_to_end on Take: one read() of the source delivers bytes; they are
\* appended, and with the limit used up read_to_end returns
FillRead ==
    /\ rd_pc = "fill" /\ want > 0 /\ pos < GoodLen
    /\ LET k == Min(chunk, Min(want, GoodLen - pos)) IN
         /\ input' = extend(input, SubSeq(src, pos + 1, pos + k))
         /\ pos' = pos + k
         /\ want' = want - k
         /\ rd_pc' = IF want = k THEN "ready" ELSE "fill"
    /\ UNCHANGED << stage, start, header, string_table, nodes, entries,
                    fs, result, failed_at >>
    /\ CodecUnchanged /\ SourceUnchanged

\* read_to_end on Take: the limit is 0 or the source is at its end, read()
\* gives 0 bytes and read_to_end returns Ok
FillEnd ==
    /\ rd_pc = "fill" /\ (want = 0 \/ (fails_at < 0 /\ pos >= Len(src)))
    /\ rd_pc' = "ready"
    /\ want' = 0
    /\ UNCHANGED << pos, stage, input, start, header, string_table, nodes,
                    entries, fs, result, failed_at >>
    /\ CodecUnchanged /\ SourceUnchanged

\* read_to_end on Take: read() of the source fails, `?` returns Err(Error::Io)
FillFails ==
    /\ rd_pc = "fill" /\ want > 0 /\ fails_at >= 0 /\ pos >= GoodLen
    /\ Finish("Io", stage)
    /\ UNCHANGED << pos, input, want, start, header, string_table, nodes,
                    entries, fs >>
    /\ CodecUnchanged /\ SourceUnchanged

\* Header::read returned Ok: the NoNodes check, then seek to strings_offset
\* and the read of the string table is set up
HeaderDecoded ==
    /\ stage = "header" /\ rd_pc = "ready"
    /\ LET r == parse_header(input) IN
         /\ r.t = "Done"
         /\ header' = r.v
         /\ \/ /\ r.v.n_nodes = u32(0)
               /\ Finish("NoNodes", "no_nodes")
               /\ UNCHANGED << pos, input, want, start >>
            \/ /\ r.v.n_nodes /= u32(0)
               /\ pos' = as_usize(r.v.strings_offset)
               /\ start' = as_usize(r.v.strings_offset)
               /\ stage' = "strings"
               /\ rd_pc' = "fill"
               /\ input' = <<>>
               /\ want' = as_usize(r.v.strings_size)
               /\ UNCHANGED << result, failed_at >>
    /\ UNCHANGED << string_table, nodes, entries, fs >>
    /\ CodecUnchanged /\ SourceUnchanged

\* the string table is read: seek to nodes_offset, the first Node::read
StringsRead ==
    /\ stage = "strings" /\ rd_pc = "ready"
    /\ string_table' = input
    /\ EnterRead("nodes", as_usize(header.nodes_offset))
    /\ UNCHANGED << result, failed_at >>
    /\ UNCHANGED << header, nodes, entries, fs >>
    /\ CodecUnchanged /\ SourceUnchanged

\* the check of the id left out
is_root_unchecked(node) == TRUE

\* nodes[0].id != "ROOT" does not hold
is_root(node) == node.id = ROOT

\* Node::read returned Ok: read_name, push; after the last node the ROOT
\* check, then seek to entries_offset and the first Entry::read
NodeDecoded ==
    /\ stage = "nodes" /\ rd_pc = "ready"
    /\ LET r == parse_node(input)
           named == node_read_name(r.v, string_table)
           pushed == Append(nodes, named.v)
       IN
         /\ r.t = "Done"
         /\ \/ /\ named.t = "Error"
               /\ Finish("NameEncodingError", "nodes")
               /\ UNCHANGED << pos, input, want, start, nodes >>
            \/ /\ named.t = "Done"
               /\ Len(pushed) < as_usize(header.n_nodes)
               /\ nodes' = pushed
               /\ EnterRead("nodes", pos)
               /\ UNCHANGED << result, failed_at >>
            \/ /\ named.t = "Done"
               /\ Len(pushed) >= as_usize(header.n_nodes)
               /\ ~is_root(pushed[1])
               /\ nodes' = pushed
               /\ Finish("NoRootNode", "root")
               /\ UNCHANGED << pos, input, want, start >>
            \/ /\ named.t = "Done"
               /\ Len(pushed) >= as_usize(header.n_nodes)
               /\ is_root(pushed[1])
               /\ nodes' = pushed
               /\ \/ /\ header.n_entries /= u32(0)
                     /\ EnterRead("entries", as_usize(header.entries_offset))
                     /\ UNCHANGED << result, failed_at >>
                  \/ /\ header.n_entries = u32(0)
                     /\ pos' = as_usize(header.entries_offset)
                     /\ stage' = "tree"
                     /\ rd_pc' = "idle"
                     /\ UNCHANGED << input, want, start, result, failed_at >>
    /\ UNCHANGED << header, string_table, entries, fs >>
    /\ CodecUnchanged /\ SourceUnchanged

\* Entry::read returned Ok: read_name, push; after the last entry the tree
\* is built next
EntryDecoded ==
    /\ stage = "entries" /\ rd_pc = "ready"
    /\ LET r == parse_entry(input)
           named == entry_read_name(r.v, string_table)
           pushed == Append(entries, named.v)
       IN
         /\ r.t = "Done"
         /\ \/ /\ named.t = "Error"
               /\ Finish("NameEncodingError", "entries")
               /\ UNCHANGED << pos, input, want, start, entries >>
            \/ /\ named.t = "Done"
               /\ Len(pushed) < as_usize(header.n_entries)
               /\ entries' = pushed
               /\ EnterRead("entries", pos)
               /\ UNCHANGED << result, failed_at >>
            \/ /\ named.t = "Done"
               /\ Len(pushed) >= as_usize(header.n_entries)
               /\ entries' = pushed
               /\ stage' = "tree"
               /\ rd_pc' = "idle"
               /\ UNCHANGED << pos, input, want, start, result, failed_at >>
    /\ UNCHANGED << header, string_table, nodes, fs >>
    /\ CodecUnchanged /\ SourceUnchanged

\* the tree is built from Node 0 and the archive handle returned, unless
\* node_to_dir dies
BuildTree ==
    /\ stage = "tree"
    /\ LET r == build_fs(nodes, entries) IN
         \/ /\ r.t = "Ok"
            /\ fs' = r.root
            /\ Finish("Ok", "tree")
         \/ /\ r.t /= "Ok"
            /\ fs' = fs
            /\ Finish(r.t, "tree")
    /\ UNCHANGED << pos, input, want, start, header, string_table, nodes,
                    entries >>
    /\ CodecUnchanged /\ SourceUnchanged

Next ==
    \/ ReadIncomplete \/ ReadError \/ ReadPanic
    \/ FillRead \/ FillEnd \/ FillFails
    \/ HeaderDecoded \/ StringsRead \/ NodeDecoded \/ EntryDecoded \/ BuildTree

Spec == Init /\ [][Next]_vars

\* Rarc::new is one sequential call: while a step is possible, one is taken
FairSpec == Spec /\ WF_vars(Next)

-----------------------------------------------------------------------------
(* Properties of Rarc::new and of parse_read::read *)

ErrorKinds == { "Io", "Parse", "NoNodes", "NoRootNode", "NameEncodingError" }

HeaderHasNodes == header /= NoHeader /\ header.n_nodes /= u32(0)

\* the id bytes of the first Node record of the source (fewer than 4 when it ends before)
Node0Id ==
    LET off == as_usize(header.nodes_offset) IN SubSeq(src, off + 1, Min(off + 4, Len(src)))

\* the 16-bit type tag of a 20-byte Entry record
EntryTag(rec) == rec[5] * 256 + rec[6]

\* the buffer holds an Entry record whose type tag is unknown
UnknownTagRead ==
    /\ stage = "entries" \/ failed_at = "entries"
    /\ Len(input) = 20
    /\ EntryTag(input) \notin { \h200, \h1100 }

\* the type tag of the k-th Entry record of the source
SourceEntryTag(k) ==
    EntryTag(SubSeq(src, as_usize(header.entries_offset) + 20 * (k - 1) + 1,
                    as_usize(header.entries_offset) + 20 * k))

\* C2: an Entry record whose type tag is neither 0x0200 nor 0x1100 decodes to
\* a Parse error that Rarc::new returns; the process is not aborted and no
\* File or Folder entry comes of it.
C2_UnknownTagIsParseError ==
    /\ (UnknownTagRead /\ stage = "done") => result = "Parse"
    /\ \A k \in 1..Len(entries) : SourceEntryTag(k) \in { \h200, \h1100 }

\* C3 as stated: with a header that parses and n_nodes >= 1, a Node[0] whose
\* id is not "ROOT" makes Rarc::new end with NoRootNode and with no other
\* error (a source that fails to read aside).
C3_OnlyNoRootNode ==
    (HeaderHasNodes /\ Node0Id /= ROOT /\ result \notin { "running", "Io" })
        => result = "NoRootNode"

\* C3, amended: with a header that parses and n_nodes >= 1, a Node[0] whose
\* id is not "ROOT" never gives an archive handle; Rarc::new ends with
\* NoRootNode once the string table and all n_nodes Node records are read and
\* named, and otherwise with the error of that earlier step.
C3_NoRootNode ==
    (HeaderHasNodes /\ Node0Id /= ROOT) =>
        /\ result /= "Ok" /\ fs = NoFs /\ stage \notin { "entries", "tree" }
        /\ \/ result = "running"
           \/ result = "NoRootNode" /\ failed_at = "root"
                /\ Len(nodes) = as_usize(header.n_nodes)
           \/ result \in { "Io", "Parse", "NameEncodingError" }
                /\ failed_at \in { "strings", "nodes" }
                /\ Len(nodes) < as_usize(header.n_nodes)
        /\ (stage = "done" /\ Len(nodes) = as_usize(header.n_nodes))
               => result = "NoRootNode"

\* two Node records were read and named, the first is not "ROOT": NoRootNode
C3_Witness ==
    /\ result = "NoRootNode" /\ Len(nodes) = 2 /\ Node0Id /= ROOT

\* C6: parse_read::read terminates; with the source at its end (or failing)
\* before the parser has the bytes it needs, it returns an I/O error.
C6_ReadTerminates ==
    (Reading /\ rd_pc = "fill" /\ want > 0 /\ pos >= GoodLen) ~> (result = "Io")

\* what the parser makes of all the bytes the source can deliver from `at` on,
\* handed to it at once
Whole(st, at) == Parser(st, SubSeq(src, at + 1, GoodLen))

\* C7: the outcome of parse_read::read does not depend on how the source
\* chunks its bytes: delivered one per read() or all in one read(), the value
\* or Parse error it returns is the one the parser gives on the bytes at once,
\* and it returns an I/O error only where those bytes do not suffice.
C7_ChunkingIrrelevant ==
    /\ (Reading /\ rd_pc = "ready" /\ Parser(stage, input).t /= "Incomplete")
           => /\ Parser(stage, input).t = Whole(stage, start).t
              /\ Parser(stage, input).v = Whole(stage, start).v
    /\ (result = "Io" /\ failed_at \in { "header", "nodes", "entries" })
           => Whole(failed_at, start).t = "Incomplete"

\* an Entry record was delivered one byte per read() and parse_entry is done with it
C7_Witness ==
    /\ chunk = 1 /\ stage = "entries" /\ rd_pc = "ready"
    /\ Parser(stage, input).t = "Done"

RecordSize(st) == CASE st = "header" -> \h40 [] st = "nodes" -> 16 [] st = "entries" -> 20

C8_Consumed ==
    /\ Reading =>
           /\ pos = start + Len(input)
           /\ input = SubSeq(src, start + 1, pos)
    /\ (Reading /\ rd_pc = "ready" /\ Parser(stage, input).t = "Done")
           => pos = start + RecordSize(stage)
    /\ stage = "header" => start = 0
    /\ stage = "nodes" => start = as_usize(header.nodes_offset) + 16 * Len(nodes)
    /\ stage = "entries" => start = as_usize(header.entries_offset) + 20 * Len(entries)

C8_Forward == (Reading /\ stage' = stage /\ start' = start) => pos' >= pos

\* C8: a successful parse_read::read consumes exactly the bytes of its record
\* (0x40 after Header::read from 0, 16 per Node, 20 per Entry) and never moves
\* the position backward, so the reads of Rarc::new's loops decode consecutive
\* records.
C8_ReadsExactlyTheRecord == []C8_Consumed /\ [][C8_Forward]_vars

\* the second Node record was read right after the first, and is decoded
C8_Witness ==
    /\ stage = "nodes" /\ Len(nodes) = 1 /\ rd_pc = "ready"
    /\ Parser(stage, input).t = "Done" /\ pos = \h40 + 32

StageRank(st) ==
    CASE st = "header" -> 0 [] st = "strings" -> 1 [] st = "nodes" -> 2
      [] st = "entries" -> 3 [] st = "tree" -> 4 [] st = "done" -> 5

AllNamed(recs) == \A k \in 1..Len(recs) : recs[k].name.some

\* every stage of Rarc::new has succeeded
AllStagesDone ==
    /\ HeaderHasNodes
    /\ Len(string_table) <= as_usize(header.strings_size)
    /\ Len(nodes) = as_usize(header.n_nodes) /\ AllNamed(nodes)
    /\ is_root(nodes[1])
    /\ Len(entries) = as_usize(header.n_entries) /\ AllNamed(entries)
    /\ fs /= NoFs

\* the stages run in order, and what a stage needs was made by the ones before
C9_Order ==
    /\ stage = "header" => header = NoHeader /\ string_table = <<>>
    /\ stage \in { "header", "strings" } => nodes = <<>>
    /\ stage \in { "header", "strings", "nodes" } => entries = <<>>
    /\ stage /= "done" => fs = NoFs /\ result = "running"
    /\ stage \in { "strings", "nodes", "entries", "tree" } => HeaderHasNodes
    /\ stage \in { "entries", "tree" } =>
           Len(nodes) = as_usize(header.n_nodes) /\ is_root(nodes[1])
    /\ stage = "tree" => Len(entries) = as_usize(header.n_entries)

\* C9: Rarc::new runs header parse, NoNodes check, string-table read, node
\* decode, NoRootNode check, entry decode and tree build in this order; it
\* returns the error of the first stage that fails, builds no tree after it,
\* and returns an archive handle only when every stage succeeded.
C9_FirstErrorReturned ==
    /\ C9_Order
    /\ result = "Ok" => AllStagesDone
    /\ result \notin { "running", "Ok" } =>
           /\ result \in ErrorKinds
           /\ fs = NoFs
           /\ (result = "NoNodes") = (failed_at = "no_nodes")
           /\ (result = "NoRootNode") = (failed_at = "root")

\* what of C9 holds whatever the archive: the order of the stages, no read
\* or seek once Rarc::new is over, a handle only when every stage succeeded
C9_OrderAndFailFast ==
    /\ [](C9_Order /\ (result = "Ok" => AllStagesDone) /\ (result /= "Ok" => fs = NoFs))
    /\ [][/\ StageRank(stage') >= StageRank(stage)
          /\ stage = "done" => (pos' = pos /\ fs' = fs)]_vars

-----------------------------------------------------------------------------
(* The tree builder on its own: node_to_dir on Node and Entry tables as    *)
(* the decode stages leave them (names resolved, "ROOT" first).            *)

\* the most Node records, and the most Entry records, of a table
MaxTreeNodes == 2

MaxTreeEntries == 3

\* the Entry templates: <<kind, name_offset, folder_node_idx>>; a folder may
\* point past the Node table
TreeEntryKinds ==
    { << "File", off, 0 >> : off \in { 0, 2, 5 } }
    \cup { << "Folder", off, 0 >> : off \in { 0, 2 } }
    \cup { << "Folder", 5, idx >> : idx \in 0..MaxTreeNodes }

\* the Entry at position k (from 0) of a table, named from StringTable
TreeEntry(kind, k) ==
    IF kind[1] = "File"
    THEN [ kind        |-> "File",
           idx         |-> k,
           name_offset |-> kind[2],
           hash        |-> 0,
           name        |-> Some(name_bytes(StringTable, kind[2])),
           data_offset |-> u32(16 * k),
           data_length |-> u32(k + 1) ]
    ELSE [ kind            |-> "Folder",
           name_offset     |-> kind[2],
           hash            |-> 0,
           name            |-> Some(name_bytes(StringTable, kind[2])),
           folder_node_idx |-> u32(kind[3]) ]

\* a Node over the entries [first, first + n)
TreeNode(id, first, n) ==
    [ id              |-> id,
      name            |-> Some(name_bytes(StringTable, 5)),
      filename_offset |-> u32(5),
      filename_hash   |-> 0,
      n_entries       |-> n,
      entry_start_id  |-> u32(first) ]

\* Node 0 spans the entries before `cut`, every other Node those from `cut`
\* to the end of the table, or `over` past it
TreeNodes(n, ne, cut, over) ==
    [ k \in 1..n |->
        IF k = 1 THEN TreeNode(ROOT, 0, cut)
        ELSE TreeNode(<< \h58, \h58, \h58, \h58 >>, Min(cut, ne), ne + over - Min(cut, ne)) ]

TreeInit ==
    /\ \E eks \in SeqsUpTo(TreeEntryKinds, MaxTreeEntries) :
         /\ entries = [ k \in 1..Len(eks) |-> TreeEntry(eks[k], k - 1) ]
         /\ \E n \in 1..MaxTreeNodes, cut \in 0..(Len(eks) + 1), over \in { 0, 1 } :
                nodes = TreeNodes(n, Len(eks), cut, over)
    /\ stage = "tree"
    /\ checked = FALSE
    /\ src = <<>> /\ fails_at = -1 /\ pos = 0 /\ chunk = 1 /\ rd_pc = "idle"
    /\ input = <<>> /\ want = 0 /\ start = 0 /\ header = NoHeader
    /\ string_table = StringTable /\ fs = NoFs /\ result = "running" /\ failed_at = ""
    /\ CodecAtRest

TreeSpec == TreeInit /\ [][BuildTree]_vars

\* the tree nodes below directory d, at any depth
RECURSIVE Below(_)
Below(d) ==
    UNION { IF d.members[j].kind = "Dir"
            THEN { d.members[j] } \cup Below(d.members[j])
            ELSE { d.members[j] } : j \in 1..Len(d.members) }

\* the directories of the tree, its root included
Dirs(root) == { root } \cup { t \in Below(root) : t.kind = "Dir" }

Synthetic(k) == entries[k + 1].name_offset \in { 0, 2 }

\* C4: no tree node, at any depth, comes from an entry whose name offset is
\* 0 or 2, be it a File or a Folder entry.
C4_NoSyntheticEntries ==
    fs /= NoFs => \A t \in Below(fs) : ~Synthetic(t.entry)

\* a tree is built although the root holds a file at offset 2 and a
\* subdirectory's range holds a folder at offset 0 or 2
C4_Witness ==
    /\ fs /= NoFs
    /\ \E k \in entry_range(nodes[1])[1]..(entry_range(nodes[1])[2] - 1) :
           Synthetic(k) /\ entries[k + 1].kind = "File"
    /\ \E d \in Dirs(fs) :
           /\ d.entry >= 0
           /\ \E k \in entry_range(nodes[d.node + 1])[1]..(entry_range(nodes[d.node + 1])[2] - 1) :
                  Synthetic(k) /\ entries[k + 1].kind = "Folder"

\* the entries of Node n that are not synthetic, in table order
Kept(n) ==
    LET range == entry_range(nodes[n + 1]) IN
    SelectSeq([ j \in 1..(range[2] - range[1]) |-> range[1] + j - 1 ],
              LAMBDA k : ~Synthetic(k))

\* tree node t is what entry k stands for
ChildOf(t, k) ==
    LET e == entries[k + 1] IN
    /\ t.entry = k
    /\ t.name = e.name.s
    /\ IF e.kind = "File"
       THEN t.kind = "File"
            /\ t.data_bounds = << as_usize(e.data_offset), as_usize(e.data_length) >>
       ELSE t.kind = "Dir" /\ t.node = as_usize(e.folder_node_idx)

\* C5: the children of every directory, built from Node N, are one per
\* non-synthetic entry of N's range, in the order of the Entry table: a File
\* with the entry's bounds, or a Dir built from Node[folder_node_idx].
C5_ChildrenInTableOrder ==
    fs /= NoFs =>
        /\ fs.node = 0
        /\ \A d \in Dirs(fs) :
               /\ Len(d.members) = Len(Kept(d.node))
               /\ \A j \in 1..Len(d.members) : ChildOf(d.members[j], Kept(d.node)[j])

\* a root with two children in table order, the first of them a directory
\* that has a child of its own
C5_Witness ==
    /\ fs /= NoFs
    /\ Len(fs.members) = 2
    /\ fs.members[1].entry < fs.members[2].entry
    /\ fs.members[1].kind = "Dir"
    /\ Len(fs.members[1].members) >= 1

\* every Node's range lies inside the Entry table and every Folder entry
\* points inside the Node table
TablesInBounds ==
    /\ \A n \in 1..Len(nodes) : entry_range(nodes[n])[2] <= Len(entries)
    /\ \A k \in 1..Len(entries) :
           entries[k].kind = "Folder"
               => as_usize(entries[k].folder_node_idx) < Len(nodes)

\* the tree build is over and died on an index outside a table
BuildIndexedOutside == stage = "done" /\ failed_at = "tree" /\ result = "Panic"

\* C11: the tree build never indexes outside the Node or Entry table: a
\* folder_node_idx >= the number of nodes, or a node range that extends past
\* the number of entries, is guarded against, so no build ends on an
\* out-of-bounds index.
C11_NeverIndexesOutside == ~BuildIndexedOutside

\* on tables whose indices all lie in bounds no build ends on an
\* out-of-bounds index
C11_InBoundsNeverIndexesOutside == TablesInBounds => ~BuildIndexedOutside

=============================================================================
